---- MODULE Spec2Model ----
(***************************************************************************)
(* PredictPix landing page (src/src/PredictPixLanding.jsx): the countdown  *)
(* hook, the referral hook and the waitlist signup handler of the          *)
(* PredictPixLanding component, as a state machine over the component's    *)
(* React state and the browser events that drive it.                       *)
(*                                                                         *)
(* Time is in milliseconds, as Date.now() and Date#getTime() give it, but  *)
(* counted from a clock origin three days before LAUNCH_AT_ISO, so that    *)
(* every instant fits the model checker's integers.                        *)
(***************************************************************************)
EXTENDS Integers, Sequences, FiniteSets, TLC

VARIABLES
    phase,       \* life of the view: "rendered" (first render done, effects not yet run), "mounted", "unmounted"
    timers,      \* ids of the intervals that setInterval started and clearInterval has not cleared
    timerId,     \* the id captured by the countdown effect's cleanup closure (0: none)
    now,         \* useCountdown: const [now, setNow]
    url,         \* query part of window.location.href: a sequence of <<key, value>> pairs
    refParam,    \* useRefParam: const [ref, setRef]
    email,       \* const [email, setEmail]
    wallet,      \* const [wallet, setWallet]
    message,     \* const [message, setMessage]; <<>> is null
    loading,     \* const [loading, setLoading]
    inflight,    \* calls of submit() suspended at an await: [id, stage, status]
    netCalls,    \* number of fetch("/api/subscribe") calls issued so far
    sent,        \* the bodies of the requests issued so far
    lastAction,  \* the event handled last (history)
    lastText     \* the body the last resolved res.text() gave (history)

vars == <<phase, timers, timerId, now, url, refParam, email, wallet, message,
          loading, inflight, netCalls, sent, lastAction, lastText>>

----------------------------------------------------------------------------
(* Bounds *)

\* fetch calls issued in one behaviour
MaxCalls == 2

\* whole days before the launch that the countdown inputs cover
MaxDays == 1

----------------------------------------------------------------------------
(* Countdown: useCountdown *)

SecondMs == 1000
MinuteMs == 1000 * 60
HourMs == 1000 * 60 * 60
DayMs == 1000 * 60 * 60 * 24

\* new Date(LAUNCH_AT_ISO).getTime(), from the model's clock origin
target == 3 * DayMs

Max(a, b) == IF a >= b THEN a ELSE b

\* Math.floor(x / d) for integers x >= 0, d > 0
FloorDiv(x, d) == x \div d

\* Math.floor((x / d) % m), x >= 0: the real quotient x/d reduced into [0, m),
\* then floored; x/d mod m = (x mod d*m)/d
FloorDivMod(x, d, m) == (x % (d * m)) \div d

DiffSwapped(n) == Max(0, n - target)

DiffUnclamped(n) == target - n

Diff(n) == Max(0, target - n)

Days(n) == FloorDiv(Diff(n), DayMs)

HoursNoWrap(n) == FloorDiv(Diff(n), HourMs)

Hours(n) == FloorDivMod(Diff(n), HourMs, 24)

Minutes(n) == FloorDivMod(Diff(n), MinuteMs, 60)

Seconds(n) == FloorDivMod(Diff(n), SecondMs, 60)

\* const preLaunch = diff > 0
PreLaunch == Diff(now) > 0

\* Values Date.now() returns in the page model: around the launch instant
Instants == {target - 2000, target - 1000, target - 1, target, target + 1000}

\* Remaining times d.h:m:s.ms whose fields sit at the ends and inside their ranges
WideDiffs ==
    {d * DayMs + h * HourMs + m * MinuteMs + s * SecondMs + ms :
        d \in 0..MaxDays, h \in {0, 1, 23}, m \in {0, 1, 59},
        s \in {0, 1, 59}, ms \in {0, 1, 999}}

\* Values Date.now() returns in the countdown model: before, at and after the launch
WideInstants == {target - x : x \in WideDiffs} \cup {target + 1, target + DayMs}

\* Date.now() on a clock that does not go back: no earlier than the last reading
DateNow(last, range) == {t \in range : t >= last}

----------------------------------------------------------------------------
(* Referral: useRefParam *)

Urls ==
    { <<>>,
      << <<"ref", "ABC123">> >>,
      << <<"utm", "x">>, <<"ref", "">> >> }

\* URLSearchParams#get: the first value of the key, <<v>>, or <<>> for null
RECURSIVE SearchParamsGet(_, _)
SearchParamsGet(q, k) ==
    IF q = <<>> THEN <<>>
    ELSE IF Head(q)[1] = k THEN <<Head(q)[2]>>
    ELSE SearchParamsGet(Tail(q), k)

\* JavaScript a || b on strings: b when a is the empty string
OrElse(a, b) == IF a = "" THEN b ELSE a

\* url.searchParams.get("ref") || ""
RefFromUrl(q) ==
    LET r == SearchParamsGet(q, "ref")
    IN  IF r = <<>> THEN "" ELSE OrElse(r[1], "")

\* {refParam || "none"}
RefDisplay == OrElse(refParam, "none")

----------------------------------------------------------------------------
(* Signup form: inputs, validation, submit *)

\* Text typed into input#email, as a sequence of characters; <<>> is ""
Emails == { <<>>, <<"a">>, <<"a", "@", "b">> }

\* Text typed into input#wallet
Wallets == { "", "pi_user" }

\* Response statuses with res.ok false
Statuses == { 409, 500 }

\* Response bodies res.text() resolves to
Bodies == { "", "duplicate email" }

\* err?.message of a rejection; "" stands for an error without a message
ErrMessages == { "", "Failed to fetch" }

\* type="email": a non-empty local part, one "@", a non-empty domain
EmailSyntaxOk(e) ==
    \E i \in 1..Len(e) :
        /\ e[i] = "@"
        /\ i > 1
        /\ i < Len(e)
        /\ \A j \in 1..Len(e) : j # i => e[j] # "@"

\* Constraint validation of form#waitlist before the submit event is fired:
\* input#email is required and of type email, input#consent is required
FormValidNoRequired(e, consent) == (e = <<>> \/ EmailSyntaxOk(e)) /\ consent

FormValid(e, consent) == e # <<>> /\ EmailSyntaxOk(e) /\ consent

NullMsg == <<>>

SuccessMsg == << "You're on the list! Check your email for confirmation." >>

\* `Signup failed: ${t || res.status}`
SignupFailedMsg(t, status) == << "Signup failed: ", OrElse(t, ToString(status)) >>

\* `Network error: ${err?.message || "unknown"}`
NetworkErrorMsg(m) == << "Network error: ", OrElse(m, "unknown") >>

\* JSON.stringify({ email, wallet, ref: refParam })
RequestBodyNoRef == [email |-> email, wallet |-> wallet, ref |-> ""]

RequestBody == [email |-> email, wallet |-> wallet, ref |-> refParam]

Mounted == phase = "mounted"

----------------------------------------------------------------------------
(* Initial state: the first render, before any effect has run *)

InitView ==
    /\ phase = "rendered"
    /\ timers = {}
    /\ timerId = 0
    /\ url \in Urls
    /\ refParam = ""
    /\ email = <<>>
    /\ wallet = ""
    /\ message = NullMsg
    /\ loading = FALSE
    /\ inflight = {}
    /\ netCalls = 0
    /\ sent = {}
    /\ lastAction = "Render"
    /\ lastText = ""

Init == InitView /\ now \in Instants

InitWide == InitView /\ now \in WideInstants

----------------------------------------------------------------------------
(* Effects *)

\* What the countdown effect's cleanup leaves of the active intervals
ClearedLeak(ts, id) == ts

Cleared(ts, id) == ts \ {id}

\* First commit: both effects run (setRef from the address, setInterval)
Mount ==
    /\ phase = "rendered"
    /\ phase' = "mounted"
    /\ refParam' = RefFromUrl(url)
    /\ LET id == 1 IN
        /\ timers' = timers \cup {id}
        /\ timerId' = id
    /\ lastAction' = "Mount"
    /\ UNCHANGED <<now, url, email, wallet, message, loading, inflight, netCalls, sent,
                   lastText>>

\* Teardown: the countdown effect's cleanup, clearInterval(id)
Unmount ==
    /\ phase = "mounted"
    /\ phase' = "unmounted"
    /\ timers' = Cleared(timers, timerId)
    /\ lastAction' = "Unmount"
    /\ UNCHANGED <<timerId, now, url, refParam, email, wallet, message, loading,
                   inflight, netCalls, sent, lastText>>

\* The interval fires: setNow(Date.now()); a state update of a view that is
\* gone is dropped
Tick(range) ==
    /\ timers # {}
    /\ \E t \in DateNow(now, range) :
        now' = IF Mounted THEN t ELSE now
    /\ lastAction' = "Tick"
    /\ UNCHANGED <<phase, timers, timerId, url, refParam, email, wallet, message,
                   loading, inflight, netCalls, sent, lastText>>

TickPage == Tick(Instants)

TickWide == Tick(WideInstants)

----------------------------------------------------------------------------
(* Form events; form#waitlist is rendered only while preLaunch *)

FormShownInBothPhases == Mounted

FormShown == Mounted /\ PreLaunch

\* onChange of input#email: setEmail(e.target.value)
EditEmail ==
    /\ FormShown
    /\ \E v \in Emails : email' = v
    /\ lastAction' = "EditEmail"
    /\ UNCHANGED <<phase, timers, timerId, now, url, refParam, wallet, message,
                   loading, inflight, netCalls, sent, lastText>>

\* onChange of input#wallet: setWallet(e.target.value)
EditWallet ==
    /\ FormShown
    /\ \E v \in Wallets : wallet' = v
    /\ lastAction' = "EditWallet"
    /\ UNCHANGED <<phase, timers, timerId, now, url, refParam, email, message,
                   loading, inflight, netCalls, sent, lastText>>

\* submit(e) up to its first await: setLoading(true), setMessage(null),
\* fetch("/api/subscribe", ...); nothing in it reads loading
SubmitHandler ==
    /\ loading' = TRUE
    /\ message' = NullMsg
    /\ netCalls' = netCalls + 1
    /\ sent' = sent \cup {RequestBody}
    /\ inflight' = inflight \cup
           {[id |-> netCalls + 1, stage |-> "fetch", status |-> 0]}
    /\ lastAction' = "SubmitSent"

\* The user presses "Join Waitlist" (or Enter): the form is validated, and the
\* submit event reaches onSubmit only when it is valid
SubmitTrigger ==
    /\ FormShown
    /\ netCalls < MaxCalls
    /\ \E consent \in BOOLEAN :
        IF FormValid(email, consent)
        THEN SubmitHandler
        ELSE /\ lastAction' = "SubmitBlocked"
             /\ UNCHANGED <<loading, message, netCalls, sent, inflight>>
    /\ UNCHANGED <<phase, timers, timerId, now, url, refParam, email, wallet, lastText>>

----------------------------------------------------------------------------
(* submit() resumed after an await. State updates of a view that is gone are *)
(* dropped.                                                                *)

\* The state updates of one resumption of submit(), ending in
\* finally { setLoading(false) }: the message shown, and whether the fields
\* are cleared
Settle(msg, clear) ==
    IF Mounted
    THEN /\ message' = msg
         /\ email' = IF clear THEN <<>> ELSE email
         /\ wallet' = IF clear THEN "" ELSE wallet
         /\ loading' = FALSE
    ELSE UNCHANGED <<message, email, wallet, loading>>

\* if (res.ok) { setMessage(...); setEmail(""); setWallet(""); }
AfterOkKeepingFields == Settle(SuccessMsg, FALSE)

AfterOk == Settle(SuccessMsg, TRUE)

\* else { const t = await res.text(); setMessage(`Signup failed: ...`); }
AfterNotOk(t, status) == Settle(SignupFailedMsg(t, status), FALSE)

\* catch (err) { setMessage(`Network error: ...`); }
AfterThrowClearingFields(m) == Settle(NetworkErrorMsg(m), TRUE)

AfterThrowLoadingStuck(m) ==
    IF Mounted
    THEN message' = NetworkErrorMsg(m) /\ UNCHANGED <<email, wallet, loading>>
    ELSE UNCHANGED <<message, email, wallet, loading>>

AfterThrow(m) == Settle(NetworkErrorMsg(m), FALSE)

\* await fetch resolves with res.ok
FetchResolveOk ==
    /\ \E r \in inflight :
        /\ r.stage = "fetch"
        /\ inflight' = inflight \ {r}
    /\ AfterOk
    /\ lastAction' = "FetchResolveOk"
    /\ UNCHANGED <<phase, timers, timerId, now, url, refParam, netCalls, sent, lastText>>

\* await fetch resolves with !res.ok: submit() goes on to await res.text()
FetchResolveNotOk ==
    /\ \E r \in inflight, st \in Statuses :
        /\ r.stage = "fetch"
        /\ inflight' = (inflight \ {r}) \cup {[r EXCEPT !.stage = "text", !.status = st]}
    /\ lastAction' = "FetchResolveNotOk"
    /\ UNCHANGED <<phase, timers, timerId, now, url, refParam, email, wallet,
                   message, loading, netCalls, sent, lastText>>

\* await fetch rejects (the request did not reach the server): catch, finally
FetchReject ==
    /\ \E r \in inflight, m \in ErrMessages :
        /\ r.stage = "fetch"
        /\ inflight' = inflight \ {r}
        /\ AfterThrow(m)
    /\ lastAction' = "FetchReject"
    /\ UNCHANGED <<phase, timers, timerId, now, url, refParam, netCalls, sent, lastText>>

\* await res.text() resolves to the response body t
TextResolve ==
    /\ \E r \in inflight, t \in Bodies :
        /\ r.stage = "text"
        /\ inflight' = inflight \ {r}
        /\ AfterNotOk(t, r.status)
        /\ lastText' = t
    /\ lastAction' = "TextResolve"
    /\ UNCHANGED <<phase, timers, timerId, now, url, refParam, netCalls, sent>>

\* await res.text() rejects (the body of the rejection could not be read):
\* catch, finally
TextReject ==
    /\ \E r \in inflight, m \in ErrMessages :
        /\ r.stage = "text"
        /\ inflight' = inflight \ {r}
        /\ AfterThrow(m)
    /\ lastAction' = "TextReject"
    /\ UNCHANGED <<phase, timers, timerId, now, url, refParam, netCalls, sent, lastText>>

----------------------------------------------------------------------------
(* Specifications *)

\* The page: every event, the clock around the launch instant
Next ==
    \/ Mount
    \/ Unmount
    \/ TickPage
    \/ EditEmail
    \/ EditWallet
    \/ SubmitTrigger
    \/ FetchResolveOk
    \/ FetchResolveNotOk
    \/ FetchReject
    \/ TextResolve
    \/ TextReject

Spec == Init /\ [][Next]_vars

\* The countdown alone, over remaining times of every shape
NextCountdown ==
    \/ Mount
    \/ TickWide
    \/ Unmount

SpecCountdown == InitWide /\ [][NextCountdown]_vars

\* An awaited promise settles: the fetch call one way or another, and the
\* read of a rejection's body one way or another
FetchSettles == FetchResolveOk \/ FetchResolveNotOk \/ FetchReject

TextSettles == TextResolve \/ TextReject

\* The signup flow of a page opened without a referral, the wallet field left
\* alone, with every outbound call completing eventually
InitLive == Init /\ url = <<>>

NextLive ==
    \/ Mount
    \/ Unmount
    \/ TickPage
    \/ EditEmail
    \/ SubmitTrigger
    \/ FetchSettles
    \/ TextSettles

SpecLive ==
    /\ InitLive
    /\ [][NextLive]_vars
    /\ WF_vars(FetchSettles)
    /\ WF_vars(TextSettles)

----------------------------------------------------------------------------
(* The message colour test of the view:                                    *)
(* message.startsWith("Signup failed") || message.startsWith("Network")    *)

IsErrorMessage(m) == m # NullMsg /\ m[1] \in {"Signup failed: ", "Network error: "}

\* The values of the query parameter k in the page address
ParamValues(q, k) == {q[i][2] : i \in {j \in 1..Len(q) : q[j][1] = k}}

----------------------------------------------------------------------------
(* Claims *)

\* C1: at most one signup request is outstanding at any time; a submit
\* trigger during an outstanding call issues no second network call.
C1_AtMostOneOutstanding == Cardinality(inflight) <= 1

C3_PhaseNeverReverses == [][~PreLaunch => ~PreLaunch']_vars

\* C3 witness: the phase flipped during the session, after a signup was sent
\* in the pre-launch phase, and a later tick has been observed.
C3_Witness ==
    /\ ~PreLaunch
    /\ now > target
    /\ sent # {}
    /\ lastAction = "Tick"

\* C4: diff is never negative, and at or past the target diff and all four
\* countdown fields are 0 and the phase is post-launch.
C4_ZeroAtOrPastTarget ==
    /\ Diff(now) >= 0
    /\ now >= target =>
          /\ Diff(now) = 0
          /\ Days(now) = 0
          /\ Hours(now) = 0
          /\ Minutes(now) = 0
          /\ Seconds(now) = 0
          /\ ~PreLaunch

\* C4 witness: a tick observed the target instant exactly.
C4_Witness == now = target /\ lastAction = "Tick"

\* C5: before the target the four fields recompose to the whole remaining
\* seconds, each within its range; 90061 s remaining shows 1, 1, 1, 1.
C5_FieldsRecompose ==
    now < target =>
        /\ Days(now) * 86400 + Hours(now) * 3600 + Minutes(now) * 60 + Seconds(now)
             = (target - now) \div 1000
        /\ Days(now) >= 0
        /\ Hours(now) \in 0..23
        /\ Minutes(now) \in 0..59
        /\ Seconds(now) \in 0..59
        /\ (target - now = 90061000 =>
               <<Days(now), Hours(now), Minutes(now), Seconds(now)>> = <<1, 1, 1, 1>>)

\* C5 witness: a tick observed 90061 s before the target.
C5_Witness == target - now = 90061000 /\ lastAction = "Tick"

\* C6: when a request completes with an accepted response, loading is false,
\* both fields are empty and the message is the success message, not an error.
C6_AcceptedClearsFields ==
    (lastAction = "FetchResolveOk" /\ Mounted) =>
        /\ ~loading
        /\ email = <<>>
        /\ wallet = ""
        /\ message = SuccessMsg
        /\ ~IsErrorMessage(message)

\* C6 witness: an accepted signup that carried an email and a wallet has
\* completed on the live view.
C6_Witness ==
    /\ lastAction = "FetchResolveOk"
    /\ Mounted
    /\ \E b \in sent : b.email # <<>> /\ b.wallet # ""
    /\ email = <<>>
    /\ wallet = ""

\* C7: a completion by rejection or by transport error leaves the email and
\* wallet fields as they were and changes only message and loading.
C7_FailurePreservesInput ==
    [][(FetchReject \/ TextResolve \/ TextReject) =>
          /\ email' = email
          /\ wallet' = wallet
          /\ now' = now
          /\ refParam' = refParam]_vars

\* C7 witness: a failure completed on the live view with both fields filled.
C7_Witness ==
    /\ lastAction \in {"FetchReject", "TextResolve", "TextReject"}
    /\ Mounted
    /\ IsErrorMessage(message)
    /\ email # <<>>
    /\ wallet # ""

\* C8: every rejected request gives a "Signup failed" message carrying the
\* response body when there is one, and a "Network error" message is given
\* only when the request did not reach the server.
C8_FailureKindsDistinguished ==
    Mounted =>
        /\ lastAction \in {"TextResolve", "TextReject"} =>
              message # NullMsg /\ message[1] = "Signup failed: "
        /\ (lastAction = "TextResolve" /\ lastText # "") => message[2] = lastText
        /\ (lastAction \in {"FetchResolveOk", "FetchReject", "TextResolve", "TextReject"}
              /\ message # NullMsg /\ message[1] = "Network error: ")
              => lastAction = "FetchReject"

\* C9: the referral token is fixed at load from the address's ref parameter
\* and every request carries it: "" (shown as "none") when there is none.
C9_RefAttachedVerbatim ==
    LET vals == ParamValues(url, "ref") IN
    /\ \A b \in sent : IF vals = {} THEN b.ref = "" ELSE b.ref \in vals
    /\ url = << <<"ref", "ABC123">> >> => \A b \in sent : b.ref = "ABC123"
    /\ phase # "rendered" => (IF vals = {} THEN refParam = "" ELSE refParam \in vals)
    /\ (Mounted /\ vals = {}) => RefDisplay = "none"

\* C9 witness: two requests were issued from a page opened with ?ref=ABC123.
C9_Witness ==
    /\ url = << <<"ref", "ABC123">> >>
    /\ netCalls = 2
    /\ sent # {}

\* C10: the interval runs from mount to unmount, never more than one at a
\* time, and after unmount none is left and no tick fires.
C10_TimerLifecycle ==
    /\ Cardinality(timers) <= 1
    /\ phase = "rendered" => timers = {}
    /\ Mounted => timers = {timerId}
    /\ phase = "unmounted" => timers = {} /\ lastAction # "Tick"

\* C10 witness: the view was torn down after its timer had ticked past the
\* target, and a request completed afterwards.
C10_Witness ==
    /\ phase = "unmounted"
    /\ now > target
    /\ lastAction = "FetchResolveOk"

\* C11: every started submission ends with loading false and a message
\* shown, whatever the outcome of the call, while the view lives: no call
\* outstanding leaves loading true, and a loading view leads to a settled one.
C11_SubmissionRecovered ==
    /\ []((Mounted /\ inflight = {}) =>
            (~loading /\ (netCalls > 0 => message # NullMsg)))
    /\ ((Mounted /\ loading) ~> (~Mounted \/ (~loading /\ message # NullMsg)))

\* C11 witness: the read of a rejection's body failed and the view shows an
\* error with loading false and nothing outstanding.
C11_Witness ==
    /\ lastAction = "TextReject"
    /\ Mounted
    /\ inflight = {}
    /\ ~loading
    /\ IsErrorMessage(message)

\* C12: once the phase is post-launch no new call is issued; a call started
\* before the flip may complete after it, and a completion writes only
\* message, email, wallet and loading: now, hence the phase and the countdown
\* fields, stay as they were.
C12_NoCallAfterLaunch ==
    [][/\ ~PreLaunch => (netCalls' = netCalls /\ sent' = sent)
       /\ (FetchSettles \/ TextSettles) =>
             /\ now' = now
             /\ PreLaunch' = PreLaunch
             /\ <<Days(now'), Hours(now'), Minutes(now'), Seconds(now')>>
                  = <<Days(now), Hours(now), Minutes(now), Seconds(now)>>
             /\ UNCHANGED <<phase, timers, timerId, url, refParam, netCalls, sent>>]_vars

\* C12 witness: a call sent before the launch was accepted after a tick had
\* flipped the phase, and its completion cleared the fields on the live view.
C12_Witness ==
    /\ ~PreLaunch
    /\ Mounted
    /\ lastAction = "FetchResolveOk"
    /\ message = SuccessMsg
    /\ ~loading
    /\ netCalls = 1
    /\ inflight = {}

====
